---- MODULE Spec2Model ----
(***************************************************************************)
(* Quizly AI question generation: the provider package                     *)
(* (backend/llm_providers/), the earlier single-file provider module       *)
(* (backend/llm_providers.py), the provider factory and the health check.  *)
(*                                                                         *)
(* A model reply is a sequence of tokens.  "[", "]" and "," are the JSON   *)
(* punctuation, "w" is a word of prose, "42" is a JSON number, and every   *)
(* other token is the serialisation of one JSON object of the table Obj.   *)
(* The serialisation of an object that has an "options" list contains one  *)
(* "[" and one "]" of its own, and the bracket scan sees them.             *)
(***************************************************************************)
EXTENDS Integers, Sequences, FiniteSets, TLC

\* ------------------------------------------------------------------------
\* Bounds
\* ------------------------------------------------------------------------
MaxItems == 2
MaxLimit == 2

\* ------------------------------------------------------------------------
\* JSON objects a reply can contain
\* ------------------------------------------------------------------------
NoOpts == <<>>

Opt(i, t) == [id |-> i, text |-> t]

Dict(ks, i, t, os, ca, cat) ==
    [keys |-> ks, id |-> i, text |-> t, options |-> os,
     correct_answer |-> ca, category |-> cat]

QKeys == {"text", "options", "correct_answer"}

OptsABCD == <<Opt("a", "o1"), Opt("b", "o2"), Opt("c", "o3"), Opt("d", "o4")>>
OptsDup  == <<Opt("a", "o1"), Opt("a", "o2"), Opt("c", "o3"), Opt("d", "o4")>>
OptsABCE == <<Opt("a", "o1"), Opt("b", "o2"), Opt("c", "o3"), Opt("e", "o4")>>
OptsABC  == <<Opt("a", "o1"), Opt("b", "o2"), Opt("c", "o3")>>

ObjNames == {"qGood", "qCat", "qDup", "qBadAns", "qNoAns", "qThree",
             "qBadId", "qNoOpts"}

\* A field whose key is absent from `keys` holds "" (or the empty list) and
\* is never read by the parsers.
Obj(n) ==
    CASE n = "qGood"   -> Dict(QKeys, "", "t1", OptsABCD, "a", "")
      [] n = "qCat"    -> Dict(QKeys \cup {"category"}, "", "t2", OptsABCD, "c", "science")
      [] n = "qDup"    -> Dict(QKeys, "", "t3", OptsDup, "a", "")
      [] n = "qBadAns" -> Dict(QKeys, "", "t4", OptsABCD, "e", "")
      [] n = "qNoAns"  -> Dict({"text", "options"}, "", "t5", OptsABCD, "", "")
      [] n = "qThree"  -> Dict(QKeys, "", "t6", OptsABC, "a", "")
      [] n = "qBadId"  -> Dict(QKeys, "", "t7", OptsABCE, "e", "")
      [] n = "qNoOpts" -> Dict({"text", "correct_answer"}, "", "t8", NoOpts, "a", "")

\* JSON values: a dict, a number, or a list of values.
VDict(d)   == [kind |-> "dict", d |-> d, elems |-> <<>>]
VNumber    == [kind |-> "number", d |-> Dict({}, "", "", NoOpts, "", ""), elems |-> <<>>]
VList(es)  == [kind |-> "list", d |-> Dict({}, "", "", NoOpts, "", ""), elems |-> es]

\* An option {"id": .., "text": ..} read as a dict of its own.
OptDict(o) == Dict({"id", "text"}, o.id, o.text, NoOpts, "", "")

\* The serialisation of the object contains "[" and "]" (its options list).
HasInnerArray(tok) == tok \in ObjNames /\ "options" \in Obj(tok).keys

\* ------------------------------------------------------------------------
\* json.loads on a token sequence
\* ------------------------------------------------------------------------
Fail == [ok |-> FALSE, val |-> VNumber, nxt |-> 0]

RECURSIVE PVal(_, _), PElems(_, _, _)
PVal(t, i) ==
    IF i > Len(t) THEN Fail
    ELSE IF t[i] \in ObjNames THEN [ok |-> TRUE, val |-> VDict(Obj(t[i])), nxt |-> i + 1]
    ELSE IF t[i] = "42" THEN [ok |-> TRUE, val |-> VNumber, nxt |-> i + 1]
    ELSE IF t[i] = "["
         THEN IF i + 1 <= Len(t) /\ t[i + 1] = "]"
              THEN [ok |-> TRUE, val |-> VList(<<>>), nxt |-> i + 2]
              ELSE PElems(t, i + 1, <<>>)
    ELSE Fail

PElems(t, i, acc) ==
    LET r == PVal(t, i) IN
    IF ~r.ok THEN Fail
    ELSE IF r.nxt <= Len(t) /\ t[r.nxt] = ","
         THEN PElems(t, r.nxt + 1, Append(acc, r.val))
    ELSE IF r.nxt <= Len(t) /\ t[r.nxt] = "]"
         THEN [ok |-> TRUE, val |-> VList(Append(acc, r.val)), nxt |-> r.nxt + 1]
    ELSE Fail

\* ok = FALSE is json.JSONDecodeError.
json_loads(t) ==
    LET r == PVal(t, 1) IN
    IF r.ok /\ r.nxt = Len(t) + 1 THEN [ok |-> TRUE, val |-> r.val]
    ELSE [ok |-> FALSE, val |-> VNumber]

\* ------------------------------------------------------------------------
\* content.find('[') and content.rfind(']'), as token positions (0: none)
\* ------------------------------------------------------------------------
HasOpen(tok)  == tok = "[" \/ HasInnerArray(tok)
HasClose(tok) == tok = "]" \/ HasInnerArray(tok)

\* Mutant of find_open: the last "[" instead of the first.
find_open_last(t) ==
    IF \E i \in 1..Len(t) : HasOpen(t[i])
    THEN CHOOSE i \in 1..Len(t) : HasOpen(t[i]) /\ \A j \in (i + 1)..Len(t) : ~HasOpen(t[j])
    ELSE 0

find_open(t) ==
    IF \E i \in 1..Len(t) : HasOpen(t[i])
    THEN CHOOSE i \in 1..Len(t) : HasOpen(t[i]) /\ \A j \in 1..(i - 1) : ~HasOpen(t[j])
    ELSE 0

rfind_close(t) ==
    IF \E i \in 1..Len(t) : HasClose(t[i])
    THEN CHOOSE i \in 1..Len(t) : HasClose(t[i]) /\ \A j \in (i + 1)..Len(t) : ~HasClose(t[j])
    ELSE 0

\* start >= 0 and end > start: a "[" exists and the last "]" is after it.
\* Inside one object the "[" of the options list precedes its "]".
BracketPair(t) ==
    LET s == find_open(t)
        e == rfind_close(t)
    IN  s > 0 /\ e > 0 /\ e >= s

\* json.loads(content[start:end])
\*  - from a "[" token to a "]" token: the tokens between them;
\*  - first "[" and last "]" inside the same object: its options list;
\*  - first "[" inside an object and last "]" elsewhere: the options list
\*    followed by the rest of the object, which is not JSON;
\*  - last "]" inside an object and first "[" elsewhere: an object cut before
\*    its closing brace, which is not JSON.
loads_slice(t) ==
    LET s == find_open(t)
        e == rfind_close(t)
    IN  IF t[s] = "[" /\ t[e] = "]" THEN json_loads(SubSeq(t, s, e))
        ELSE IF s = e
             THEN [ok |-> TRUE,
                   val |-> VList([k \in 1..Len(Obj(t[s]).options) |->
                                     VDict(OptDict(Obj(t[s]).options[k]))])]
        ELSE [ok |-> FALSE, val |-> VNumber]

\* ------------------------------------------------------------------------
\* subject.lower()
\* ------------------------------------------------------------------------
Subjects == {"History", "geography"}

lower(s) ==
    CASE s = "History" -> "history"
      [] s = "OpenAI" -> "openai"
      [] OTHER -> s

\* ------------------------------------------------------------------------
\* Results
\* ------------------------------------------------------------------------
\* Mutant of Question: every question gets the id 1000.
Question_same_id(i, q, cat) ==
    [id |-> 1000, text |-> q.text, options |-> q.options,
     correct_answer |-> q.correct_answer, category |-> cat]

\* A question handed to the caller; id is -1 when it has no "id" key.
Question(i, q, cat) ==
    [id |-> i, text |-> q.text, options |-> q.options,
     correct_answer |-> q.correct_answer, category |-> cat]

Returned(qs) == [exc |-> "none", msg |-> "", questions |-> qs]
Raised(e, m) == [exc |-> e, msg |-> m, questions |-> <<>>]

\* Mutants of Take: [:limit - 1], and no slice at all.
Take_one_short(s, n) == SubSeq(s, 1, IF n - 1 < Len(s) THEN n - 1 ELSE Len(s))

Take_all(s, n) == s

\* questions_data[:limit]
Take(s, n) == SubSeq(s, 1, IF n < Len(s) THEN n ELSE Len(s))

\* ------------------------------------------------------------------------
\* backend/llm_providers/openai_provider.py and ollama_provider.py:
\* _parse_response (the two copies are the same text)
\* ------------------------------------------------------------------------
\* `key in q_data` on a number raises TypeError; on a list it is False.
RECURSIVE pkg_loop(_, _, _, _)
pkg_loop(elems, k, subject, acc) ==
    IF k > Len(elems) THEN Returned(acc)
    ELSE LET q == elems[k] IN
         IF q.kind = "number" THEN Raised("TypeError", "not iterable")
         ELSE IF q.kind = "list" \/ ~(QKeys \subseteq q.d.keys)
              THEN pkg_loop(elems, k + 1, subject, acc)
         ELSE pkg_loop(elems, k + 1, subject,
                       Append(acc, Question(1000 + (k - 1), q.d, lower(subject))))

questions_data(content) ==
    LET whole == json_loads(content) IN
    IF whole.ok THEN [exc |-> "none", val |-> whole.val]
    ELSE IF BracketPair(content)
         THEN LET part == loads_slice(content) IN
              IF part.ok THEN [exc |-> "none", val |-> part.val]
              ELSE [exc |-> "JSONDecodeError", val |-> VNumber]
    ELSE [exc |-> "ValueError", val |-> VNumber]

as_list(v) == IF v.kind = "list" THEN v.elems ELSE <<v>>

\* Mutant of _parse_response: a reply that cannot be parsed gives an empty
\* result.
_parse_response_empty_on_failure(content, subject, limit) ==
    LET qd == questions_data(content) IN
    IF qd.exc # "none" THEN Returned(<<>>)
    ELSE LET r == pkg_loop(Take(as_list(qd.val), limit), 1, subject, <<>>) IN
         IF r.exc # "none" THEN r
         ELSE IF r.questions = <<>>
              THEN Raised("ValueError", "No valid questions generated")
         ELSE r

_parse_response(content, subject, limit) ==
    LET qd == questions_data(content) IN
    IF qd.exc = "JSONDecodeError" THEN Raised("JSONDecodeError", "")
    ELSE IF qd.exc = "ValueError"
         THEN Raised("ValueError", "Could not parse AI response as JSON")
    ELSE LET r == pkg_loop(Take(as_list(qd.val), limit), 1, subject, <<>>) IN
         IF r.exc # "none" THEN r
         ELSE IF r.questions = <<>>
              THEN Raised("ValueError", "No valid questions generated")
         ELSE r

\* generate_questions from the reply of the backend on: the empty-content
\* test, _parse_response and the three handlers, each of which raises
\* RuntimeError with its own message.
pkg_generate(content, subject, limit) ==
    LET r == IF content = <<>>
             THEN Raised("ValueError", "response content is empty")
             ELSE _parse_response(content, subject, limit)
    IN  IF r.exc = "none" THEN r
        ELSE IF r.exc \in {"JSONDecodeError", "ValueError"}
             THEN Raised("RuntimeError", "Failed to parse response")
        ELSE Raised("RuntimeError", "question generation failed")

\* ------------------------------------------------------------------------
\* backend/llm_providers.py: OllamaProvider.generate_questions
\* ------------------------------------------------------------------------
OptionIds(os) == [k \in 1..Len(os) |-> os[k].id]

SeqRange(s) == {s[k] : k \in 1..Len(s)}

valid_options(q) ==
    /\ Len(q.options) = 4
    /\ Cardinality(SeqRange(OptionIds(q.options))) = 4
    /\ SeqRange(OptionIds(q.options)) \subseteq {"a", "b", "c", "d"}
    /\ q.correct_answer \in SeqRange(OptionIds(q.options))

RECURSIVE legacy_loop(_, _, _, _)
legacy_loop(elems, k, subject, acc) ==
    IF k > Len(elems) THEN Returned(acc)
    ELSE LET q == elems[k] IN
         IF q.kind = "number" THEN Raised("TypeError", "not iterable")
         ELSE IF q.kind = "list" \/ ~(QKeys \subseteq q.d.keys) \/ ~valid_options(q.d)
              THEN legacy_loop(elems, k + 1, subject, acc)
         ELSE legacy_loop(elems, k + 1, subject,
                  Append(acc, Question(-1, q.d,
                                       IF "category" \in q.d.keys THEN q.d.category
                                       ELSE lower(subject))))

\* An empty list of parsed questions is returned, not raised; every
\* exception of the parse leaves through `except Exception: raise`.
legacy_generate(content, subject, limit) ==
    LET qd == questions_data(content) IN
    IF qd.exc = "JSONDecodeError" THEN Raised("JSONDecodeError", "")
    ELSE IF qd.exc = "ValueError"
         THEN Raised("ValueError", "Could not parse AI response as JSON")
    ELSE legacy_loop(Take(as_list(qd.val), limit), 1, subject, <<>>)

\* ------------------------------------------------------------------------
\* backend/llm_providers.py: OpenAIProvider.generate_questions
\* ------------------------------------------------------------------------
\* The prompt asks for {"questions": [...]}.  `content` is either the whole
\* reply, or (enveloped) the value of the key "questions" of a reply that
\* is such an object; the reply is valid JSON exactly when `content` is.
\* There is no bracket scan: a reply that is not JSON raises ValueError.
\* data.get("questions", []) raises AttributeError on a list or a number
\* and gives [] on an object of the table, none of which has that key.
\* Only a dict found under "questions" is wrapped; the validation loop is
\* that of OllamaProvider, and an empty result is returned, not raised.
legacy_openai_generate(content, enveloped, subject, limit) ==
    LET data == json_loads(content) IN
    IF ~data.ok
    THEN Raised("ValueError", "Could not parse AI response from OpenAI as JSON.")
    ELSE IF ~enveloped
         THEN IF data.val.kind = "dict" THEN Returned(<<>>)
              ELSE Raised("AttributeError", "object has no attribute get")
    ELSE LET questions_list ==
                 IF data.val.kind = "list" THEN data.val.elems
                 ELSE IF data.val.kind = "dict" THEN <<data.val>>
                 ELSE <<>>
         IN  legacy_loop(Take(questions_list, limit), 1, subject, <<>>)

\* ------------------------------------------------------------------------
\* Replies of the backend
\* ------------------------------------------------------------------------
Elements == ObjNames \cup {"42"}

ElemSeqs == UNION {[1..n -> Elements] : n \in 0..MaxItems}

RECURSIVE Join(_)
Join(es) ==
    IF es = <<>> THEN <<>>
    ELSE IF Len(es) = 1 THEN <<es[1]>>
    ELSE <<es[1], ",">> \o Join(Tail(es))

ArrayText(es) == <<"[">> \o Join(es) \o <<"]">>

Prose == {<<>>, <<"w">>, <<"[">>, <<"]">>, <<"[", "w", "]">>}

Bodies ==
    {ArrayText(es) : es \in ElemSeqs}
    \cup {<<e>> : e \in Elements}
    \cup {<<"[">> \o Join(es) : es \in ElemSeqs \ {<<>>}}
    \cup {<<>>}

Replies == {pre \o body \o post : pre \in Prose, body \in Bodies, post \in Prose}

\* ------------------------------------------------------------------------
\* State
\* ------------------------------------------------------------------------
VARIABLES
    content,    \* the text the backend replied with
    subject,    \* GenerationRequest.subject
    limit,      \* GenerationRequest.limit
    impl,       \* "none", or the module whose generate_questions ran
    result,     \* what that call returned or raised
    env,        \* os.environ: LLM_PROVIDER ("" when unset), OPENAI_API_KEY
    logCfg,     \* the llm_prompt_logging section of the logging configuration
    ollamaUp,   \* the Ollama host answers
    provider,   \* the provider object the caller holds
    last,       \* what the last factory, health or generate call did
    backendReply, \* how the backend answered the request of the last generate call
    config,     \* config_manager._config, the stored configuration
    pending,    \* the items update_config has still to write
    before,     \* the stored configuration when the running update began
    http,       \* what the last endpoint call resolved and answered
    promptEnv,  \* os.environ["PROMPT_TEMPLATE"] ("" when unset)
    instances,  \* the provider objects of llm_providers.py, with their templates
    built,      \* the prompts built so far, with the (subject, limit) of each
    file,       \* llm_config.json: "absent", or the configuration last saved
    answer,     \* what the last call of a configuration endpoint answered
    made        \* what the last call of get_llm_provider (llm_providers.py) did

vars == <<content, subject, limit, impl, result, env, logCfg, ollamaUp, provider, last,
          backendReply, config, pending, before, http, promptEnv, instances, built,
          file, answer, made>>

NoResult == Returned(<<>>)

NoProvider == [type |-> "none", client |-> FALSE]

NoCall == [op |-> "none", name |-> "", exc |-> "none", value |-> "none",
           constructed |-> 0, net |-> 0]

\* logging_config.py, _get_default_config: prompt logging is off, level INFO.
DefaultLogCfg == [enabled |-> FALSE, level |-> "INFO"]

ParseVars == <<content, subject, limit, impl, result>>
ProviderVars == <<env, logCfg, ollamaUp, provider, last>>
ServiceVars == <<config, pending, before, http>>
PromptVars == <<promptEnv, instances, built>>
ConfigVars == <<file, answer>>
LegacyVars == <<made>>

\* config_manager.py, _get_default_config with no variable set.
DefaultConfig ==
    [llm_provider |-> "ollama", ollama_model |-> "llama3.2",
     ollama_host |-> "http://localhost:11434",
     openai_api_key |-> "", openai_model |-> "gpt-3.5-turbo"]

\* No backend has been sent a request.
NoReply == [Ollama |-> "none", OpenAI |-> "none"]

NoResponse ==
    [endpoint |-> "none", requested |-> "None", requested_model |-> "None",
     status |-> 0, body |-> "none",
     exc |-> "none", cause |-> "none", reported |-> "none", available |-> <<>>,
     provider |-> "none", model |-> "none", connection |-> "none"]

\* The parts of the state a specification leaves alone.
ServiceIdle ==
    /\ config = DefaultConfig
    /\ pending = <<>>
    /\ before = DefaultConfig
    /\ http = NoResponse

PromptIdle ==
    /\ promptEnv = ""
    /\ instances = <<>>
    /\ built = {}

\* llm_config.json does not exist.
NoFile == [exists |-> FALSE, content |-> DefaultConfig]

NoProviderConfig == [provider |-> "none", model |-> "none", connection |-> "none"]

\* No configuration endpoint has answered.
NoAnswer ==
    [endpoint |-> "none", request |-> <<>>, status |-> 0, exc |-> "none",
     config |-> DefaultConfig, current_provider |-> NoProviderConfig,
     current |-> "none", available |-> <<>>, healthy |-> "none"]

ConfigIdle ==
    /\ file = NoFile
    /\ answer = NoAnswer

\* get_llm_provider has not been called.
NotMade == [exc |-> "none", type |-> "none", host |-> "none", model |-> "none"]

LegacyIdle == made = NotMade

InitParse ==
    /\ content \in Replies
    /\ subject \in Subjects
    /\ limit \in 1..MaxLimit
    /\ impl = "none"
    /\ result = NoResult
    /\ env = [LLM_PROVIDER |-> "", OPENAI_API_KEY |-> ""]
    /\ logCfg = DefaultLogCfg
    /\ ollamaUp = TRUE
    /\ provider = NoProvider
    /\ last = NoCall
    /\ backendReply = NoReply
    /\ ServiceIdle
    /\ PromptIdle
    /\ ConfigIdle
    /\ LegacyIdle

PkgGenerate ==
    /\ impl = "none"
    /\ impl' = "pkg"
    /\ result' = pkg_generate(content, subject, limit)
    /\ UNCHANGED <<content, subject, limit>>
    /\ UNCHANGED <<ProviderVars, backendReply, ServiceVars, PromptVars, ConfigVars, LegacyVars>>

LegacyGenerate ==
    /\ impl = "none"
    /\ impl' = "legacy"
    /\ result' = legacy_generate(content, subject, limit)
    /\ UNCHANGED <<content, subject, limit>>
    /\ UNCHANGED <<ProviderVars, backendReply, ServiceVars, PromptVars, ConfigVars, LegacyVars>>

NextParse == PkgGenerate \/ LegacyGenerate

SpecParse == InitParse /\ [][NextParse]_vars

\* _parse_response of the package called on the reply, without the
\* handlers of generate_questions around it.
ParseResponse ==
    /\ impl = "none"
    /\ impl' = "pkg_parse"
    /\ result' = _parse_response(content, subject, limit)
    /\ UNCHANGED <<content, subject, limit>>
    /\ UNCHANGED <<ProviderVars, backendReply, ServiceVars, PromptVars, ConfigVars, LegacyVars>>

\* generate_questions of the OpenAIProvider of llm_providers.py on a reply
\* that is `content` itself, or {"questions": content}.
LegacyOpenAIGenerate(enveloped) ==
    /\ impl = "none"
    /\ impl' = IF enveloped THEN "legacy_openai_enveloped" ELSE "legacy_openai"
    /\ result' = legacy_openai_generate(content, enveloped, subject, limit)
    /\ UNCHANGED <<content, subject, limit>>
    /\ UNCHANGED <<ProviderVars, backendReply, ServiceVars, PromptVars, ConfigVars, LegacyVars>>

NextResponse ==
    \/ ParseResponse
    \/ \E enveloped \in BOOLEAN : LegacyOpenAIGenerate(enveloped)

SpecResponse == InitParse /\ [][NextResponse]_vars

\* ------------------------------------------------------------------------
\* backend/llm_providers/__init__.py: create_llm_provider
\* backend/llm_providers/ollama_provider.py, openai_provider.py: __init__
\* ------------------------------------------------------------------------
EnvProviders == {"", "ollama", "openai", "OpenAI", "bogus"}
ApiKeys == {"", "sk-test"}

\* provider_type as the caller passes it; "None" is the omitted argument.
CreateArgs == {"None", "ollama", "openai", "invalid_provider", "OLLAMA"}

KnownProviders == {"ollama", "openai"}

\* os.getenv("LLM_PROVIDER", "ollama").lower()
env_provider(e) == IF e.LLM_PROVIDER = "" THEN "ollama" ELSE lower(e.LLM_PROVIDER)

\* OllamaProvider.__init__: the client is built and list() is called on it
\* (one request to the host); any failure leaves _client = None.
OllamaProvider(up) ==
    [exc |-> "none", provider |-> [type |-> "Ollama", client |-> up],
     constructed |-> 1, net |-> 1]

\* OpenAIProvider.__init__: without a key the client stays None and nothing
\* is raised; with a key the client object is built, without a request.
OpenAIProvider(api_key) ==
    [exc |-> "none", provider |-> [type |-> "OpenAI", client |-> api_key # ""],
     constructed |-> 1, net |-> 0]

UnknownProvider ==
    [exc |-> "ValueError", provider |-> NoProvider, constructed |-> 0, net |-> 0]

provider_type_of(arg, e) == IF arg = "None" THEN env_provider(e) ELSE arg

\* Mutant of create_llm_provider: an unknown name falls back to Ollama.
create_llm_provider_fallback(arg, e, up) ==
    LET provider_type == provider_type_of(arg, e) IN
    IF provider_type = "openai" THEN OpenAIProvider(e.OPENAI_API_KEY)
    ELSE OllamaProvider(up)

create_llm_provider(arg, e, up) ==
    LET provider_type == provider_type_of(arg, e) IN
    IF provider_type = "ollama" THEN OllamaProvider(up)
    ELSE IF provider_type = "openai" THEN OpenAIProvider(e.OPENAI_API_KEY)
    ELSE UnknownProvider

\* ------------------------------------------------------------------------
\* backend/llm_providers/base.py: the _log_prompt_* helpers
\* ------------------------------------------------------------------------
PromptLogLevels == {"ERROR", "WARN", "INFO", "DEBUG", "TRACE"}

\* self.config_manager.get_llm_prompt_logging_config()
get_llm_prompt_logging_config(cfg) == cfg

\* Each helper returns at once when logging is disabled; otherwise it looks
\* the configured level up in ["INFO", "DEBUG", "TRACE"] with list.index,
\* which raises ValueError for any other level.
_log_prompt(cfg) ==
    LET llm_config == get_llm_prompt_logging_config(cfg) IN
    IF ~llm_config.enabled THEN "none"
    ELSE IF llm_config.level \in {"INFO", "DEBUG", "TRACE"} THEN "none"
    ELSE "ValueError"

\* ------------------------------------------------------------------------
\* health_check of OllamaProvider and OpenAIProvider
\* ------------------------------------------------------------------------
\* What the chat request of the check comes back with.
HealthReplies == {"content", "no_content", "api_error", "exception"}

\* Without a client: False.  Then _log_prompt_trace_request, outside any
\* try.  Then the request, inside try; every exception of it is handled and
\* the check ends in `return False` after the logging of the failure.
health_check(p, cfg, reply) ==
    IF ~p.client THEN [exc |-> "none", value |-> "False", net |-> 0]
    ELSE IF _log_prompt(cfg) # "none"
         THEN [exc |-> _log_prompt(cfg), value |-> "none", net |-> 0]
    ELSE IF reply = "content" THEN [exc |-> "none", value |-> "True", net |-> 1]
    ELSE [exc |-> "none", value |-> "False", net |-> 1]

\* ------------------------------------------------------------------------
\* generate_questions of OllamaProvider and OpenAIProvider
\* ------------------------------------------------------------------------
\* What the chat request of generate_questions comes back with: a reply
\* with content, the backend's own error (openai.APIError,
\* ollama.ResponseError), a failure to connect, or any other exception of
\* the client.
GenReplies == {"content", "api_error", "connection_error", "exception"}

\* The handler that catches the failure of the request: the connection
\* error of the OpenAI client is an openai.APIError, that of the Ollama
\* client is no ollama.ResponseError.
api_handler(p, reply) ==
    \/ reply = "api_error"
    \/ reply = "connection_error" /\ p.type = "OpenAI"

\* The content of a reply: none, prose, one well-formed question, one
\* item without correct_answer.
GenTexts == {<<>>, <<"w">>, ArrayText(<<"qGood">>), ArrayText(<<"qNoAns">>)}

\* Mutant of requests_sent: a failed request is sent once more.
requests_sent_resend(p, cfg, reply) ==
    IF ~p.client \/ _log_prompt(cfg) # "none" THEN 0
    ELSE IF reply = "content" THEN 1
    ELSE 2

\* The chat requests one call of generate_questions sends: none without a
\* client or when _log_prompt_trace_request raises, else the one request
\* of the try block, whose failure every handler answers with a raise.
requests_sent(p, cfg, reply) ==
    IF ~p.client \/ _log_prompt(cfg) # "none" THEN 0
    ELSE 1

\* Without a client: _log_prompt_info, then `return []`.  With one:
\* _log_prompt_trace_request, outside any try; then one chat request inside
\* try, the reply handed to the empty-content test and _parse_response, and
\* every exception raised again as RuntimeError by one of three handlers.
generate_questions(p, cfg, reply, text, subj, lim) ==
    IF _log_prompt(cfg) # "none" THEN Raised(_log_prompt(cfg), "prompt logging")
    ELSE IF ~p.client THEN Returned(<<>>)
    ELSE IF reply = "content" THEN pkg_generate(text, subj, lim)
    ELSE IF api_handler(p, reply) THEN Raised("RuntimeError", "API call failed")
    ELSE Raised("RuntimeError", "question generation failed")

\* ------------------------------------------------------------------------
\* backend/llm_providers/__init__.py: get_available_providers
\* ------------------------------------------------------------------------
\* One try block of get_available_providers: the provider is created and
\* asked for its health; `except Exception: pass` ends the block on any
\* exception of either step.
try_backend(name, e, up, cfg, reply) ==
    LET c == create_llm_provider(name, e, up)
        h == health_check(c.provider, cfg, reply)
    IN  IF c.exc # "none"
        THEN [listed |-> FALSE, constructed |-> c.constructed, net |-> c.net]
        ELSE [listed |-> h.exc = "none" /\ h.value = "True",
              constructed |-> c.constructed, net |-> c.net + h.net]

not_tried == [listed |-> FALSE, constructed |-> 0, net |-> 0]

\* Mutant of get_available_providers: the OpenAI block runs only when the
\* Ollama block listed its backend.
get_available_providers_chained(e, up, cfg, r_ollama, r_openai) ==
    LET o == try_backend("ollama", e, up, cfg, r_ollama)
        a == IF e.OPENAI_API_KEY # "" /\ o.listed
             THEN try_backend("openai", e, up, cfg, r_openai)
             ELSE not_tried
    IN  [exc |-> "none",
         providers |-> (IF o.listed THEN <<"ollama">> ELSE <<>>)
                       \o (IF a.listed THEN <<"openai">> ELSE <<>>),
         constructed |-> o.constructed + a.constructed,
         net |-> o.net + a.net]

\* The Ollama block, then the OpenAI block, which is entered only when
\* OPENAI_API_KEY is set; the names are appended in that order.
get_available_providers(e, up, cfg, r_ollama, r_openai) ==
    LET o == try_backend("ollama", e, up, cfg, r_ollama)
        a == IF e.OPENAI_API_KEY # ""
             THEN try_backend("openai", e, up, cfg, r_openai)
             ELSE not_tried
    IN  [exc |-> "none",
         providers |-> (IF o.listed THEN <<"ollama">> ELSE <<>>)
                       \o (IF a.listed THEN <<"openai">> ELSE <<>>),
         constructed |-> o.constructed + a.constructed,
         net |-> o.net + a.net]

\* ------------------------------------------------------------------------
\* Factory and health check as steps
\* ------------------------------------------------------------------------
Init ==
    /\ content = <<>>
    /\ subject = "History"
    /\ limit = 1
    /\ impl = "none"
    /\ result = NoResult
    /\ env \in [LLM_PROVIDER : EnvProviders, OPENAI_API_KEY : ApiKeys]
    /\ logCfg = DefaultLogCfg
    /\ ollamaUp \in BOOLEAN
    /\ provider = NoProvider
    /\ last = NoCall
    /\ backendReply = NoReply
    /\ ServiceIdle
    /\ PromptIdle
    /\ ConfigIdle
    /\ LegacyIdle

Create(arg) ==
    LET r == create_llm_provider(arg, env, ollamaUp) IN
    /\ provider' = IF r.exc = "none" THEN r.provider ELSE provider
    /\ last' = [op |-> "create", name |-> provider_type_of(arg, env), exc |-> r.exc,
                value |-> IF r.exc = "none" THEN "provider" ELSE "none",
                constructed |-> r.constructed, net |-> r.net]
    /\ UNCHANGED <<env, logCfg, ollamaUp>>
    /\ UNCHANGED <<ParseVars, backendReply, ServiceVars, PromptVars, ConfigVars, LegacyVars>>

HealthCheck(reply) ==
    /\ provider.type # "none"
    /\ LET r == health_check(provider, logCfg, reply) IN
        last' = [op |-> "health", name |-> provider.type, exc |-> r.exc,
                 value |-> r.value, constructed |-> 0, net |-> r.net]
    /\ UNCHANGED <<env, logCfg, ollamaUp, provider>>
    /\ UNCHANGED <<ParseVars, backendReply, ServiceVars, PromptVars, ConfigVars, LegacyVars>>

ListAvailable(r_ollama, r_openai) ==
    /\ LET r == get_available_providers(env, ollamaUp, logCfg, r_ollama, r_openai) IN
        last' = [op |-> "list", name |-> "", exc |-> r.exc, value |-> r.providers,
                 constructed |-> r.constructed, net |-> r.net]
    /\ backendReply' = [Ollama |-> r_ollama, OpenAI |-> r_openai]
    /\ UNCHANGED <<env, logCfg, ollamaUp, provider>>
    /\ UNCHANGED <<ParseVars, ServiceVars, PromptVars, ConfigVars, LegacyVars>>

\* logging_config.py, LoggingConfigManager.update_config: the update is
\* merged into the configuration as given.
UpdateLoggingConfig(enabled, level) ==
    /\ logCfg' = [enabled |-> enabled, level |-> level]
    /\ UNCHANGED <<env, ollamaUp, provider, last>>
    /\ UNCHANGED <<ParseVars, backendReply, ServiceVars, PromptVars, ConfigVars, LegacyVars>>

\* The Ollama host goes away or comes back.
OllamaAvailability ==
    /\ ollamaUp' = ~ollamaUp
    /\ UNCHANGED <<env, logCfg, provider, last>>
    /\ UNCHANGED <<ParseVars, backendReply, ServiceVars, PromptVars, ConfigVars, LegacyVars>>

Next ==
    \/ \E arg \in CreateArgs : Create(arg)
    \/ \E reply \in HealthReplies : HealthCheck(reply)
    \/ \E enabled \in BOOLEAN, level \in PromptLogLevels : UpdateLoggingConfig(enabled, level)
    \/ OllamaAvailability

Spec == Init /\ [][Next]_vars

\* provider.generate_questions(subject, limit) on the provider the caller
\* holds.  reply is what the backend answers a request with, and text the
\* content of that answer when it has one.
Generate(reply, text) ==
    /\ provider.type # "none"
    /\ reply # "content" => text = <<>>
    /\ result' = generate_questions(provider, logCfg, reply, text, subject, limit)
    /\ last' = [op |-> "generate", name |-> provider.type, exc |-> result'.exc,
                value |-> IF result'.exc = "none" THEN "questions" ELSE "none",
                constructed |-> 0, net |-> requests_sent(provider, logCfg, reply)]
    /\ backendReply' = [NoReply EXCEPT ![provider.type] = reply]
    /\ content' = text
    /\ impl' = "pkg"
    /\ UNCHANGED <<subject, limit, env, logCfg, ollamaUp, provider>>
    /\ UNCHANGED <<ServiceVars, PromptVars, ConfigVars, LegacyVars>>

\* Creating providers and generating with them while the logging
\* configuration changes; the Ollama host is up or down throughout.
InitGen ==
    /\ Init
    /\ env.LLM_PROVIDER = ""

NextGen ==
    \/ \E arg \in KnownProviders : Create(arg)
    \/ \E reply \in GenReplies, text \in GenTexts : Generate(reply, text)
    \/ \E enabled \in BOOLEAN, level \in PromptLogLevels : UpdateLoggingConfig(enabled, level)

SpecGen == InitGen /\ [][NextGen]_vars

\* A provider is created, asked for its health and for questions, call
\* after call, while the logging configuration changes and the Ollama host
\* goes away and comes back.
NextClient ==
    \/ \E arg \in KnownProviders : Create(arg)
    \/ \E reply \in HealthReplies : HealthCheck(reply)
    \/ \E reply \in GenReplies, text \in GenTexts : Generate(reply, text)
    \/ \E enabled \in BOOLEAN, level \in PromptLogLevels : UpdateLoggingConfig(enabled, level)
    \/ OllamaAvailability

SpecClient == InitGen /\ [][NextClient]_vars

\* Listing the available providers while the logging configuration and the
\* Ollama host change.
NextList ==
    \/ \E r_ollama \in HealthReplies, r_openai \in HealthReplies :
            ListAvailable(r_ollama, r_openai)
    \/ \E enabled \in BOOLEAN, level \in PromptLogLevels : UpdateLoggingConfig(enabled, level)
    \/ OllamaAvailability

SpecList == Init /\ [][NextList]_vars

\* ------------------------------------------------------------------------
\* backend/config_manager.py: ConfigManager
\* ------------------------------------------------------------------------
\* _get_default_config: the stored configuration of a process that starts
\* without a configuration file.
_get_default_config(e) ==
    [DefaultConfig EXCEPT !.llm_provider = env_provider(e),
                          !.openai_api_key = e.OPENAI_API_KEY]

\* get_provider_config: the provider, model and connection the stored
\* configuration names.
get_provider_config(cfg) ==
    IF cfg.llm_provider = "openai"
    THEN [provider |-> "openai", model |-> cfg.openai_model,
          connection |-> cfg.openai_api_key]
    ELSE [provider |-> cfg.llm_provider, model |-> cfg.ollama_model,
          connection |-> cfg.ollama_host]

\* The items a PUT /api/llm/config may carry (update_llm_config accepts the
\* five keys and, for llm_provider, the two provider names).
UpdateItems ==
    {<<"llm_provider", "ollama">>, <<"llm_provider", "openai">>,
     <<"openai_model", "gpt-4">>, <<"openai_api_key", "sk-new">>}

MaxUpdate == 2

\* A request body: a dict, whose items update_config visits in order.
Updates ==
    {u \in UNION {[1..n -> UpdateItems] : n \in 1..MaxUpdate} :
        \A i, j \in 1..Len(u) : i # j => u[i][1] # u[j][1]}

\* self._config[key] = value
write_item(cfg, item) == [cfg EXCEPT ![item[1]] = item[2]]

\* The stored configuration once every item left has been written.
RECURSIVE write_all(_, _)
write_all(cfg, items) ==
    IF items = <<>> THEN cfg ELSE write_all(write_item(cfg, Head(items)), Tail(items))

\* ------------------------------------------------------------------------
\* backend/main.py: generate_ai_questions, check_llm_health
\* ------------------------------------------------------------------------
ProviderArgs == {"None", "openai", "invalid_provider"}
ListReplies == {"content", "exception"}
ModelArgs == {"None", "gpt-4o-mini"}

\* What the factory takes from the environment when the caller passes no
\* host or api_key: OLLAMA_HOST (unset here) and OPENAI_API_KEY.
connection_of(provider_type, e) ==
    IF provider_type = "openai" THEN e.OPENAI_API_KEY ELSE DefaultConfig.ollama_host

\* The model the factory takes from the environment (OLLAMA_MODEL and
\* OPENAI_MODEL unset here).
env_model(provider_type) ==
    IF provider_type = "openai" THEN "gpt-4o-mini" ELSE "llama3.2"

\* The except clause of generate_ai_questions.
status_of(exc) == 503

\* cfg is the copy get_config returned.  The provider name is the query
\* parameter or the stored one, the model the query parameter or the stored
\* one of that provider; the factory is given the name and the model only.
resolve(cfg, e, provider_arg, model_arg) ==
    LET provider_type == IF provider_arg = "None" THEN cfg.llm_provider ELSE provider_arg
        stored_model == IF provider_type = "openai" THEN cfg.openai_model
                        ELSE cfg.ollama_model
    IN  [provider |-> provider_type,
         model |-> IF model_arg = "None" THEN stored_model ELSE model_arg,
         connection |-> connection_of(provider_type, e)]

\* The answer of generate_ai_questions, given what it resolved (used),
\* what the factory did (c) and how generate_questions ended (outcome):
\* whatever generate_questions returns is returned; every exception is
\* answered with the status of the one except clause.
answer_of(provider_arg, model_arg, used, c, outcome, sent, reply) ==
    [endpoint |-> "generate", requested |-> provider_arg,
     requested_model |-> model_arg,
     status |-> IF c.exc = "none" /\ outcome.exc = "none" THEN 200
                ELSE status_of(IF c.exc # "none" THEN c.exc ELSE outcome.exc),
     body |-> IF c.exc # "none" \/ outcome.exc # "none" THEN "detail"
              ELSE IF outcome.questions = <<>> THEN "[]" ELSE "questions",
     exc |-> IF c.exc # "none" THEN c.exc ELSE outcome.exc,
     cause |-> IF c.exc = "none" /\ sent > 0 THEN reply ELSE "none",
     reported |-> used.provider,
     available |-> <<>>,
     provider |-> used.provider, model |-> used.model,
     connection |-> used.connection]

generate_ai_questions(cfg, e, up, lcfg, provider_arg, model_arg, reply, text, subj, lim) ==
    answer_of(provider_arg, model_arg,
              resolve(cfg, e, provider_arg, model_arg),
              create_llm_provider(resolve(cfg, e, provider_arg, model_arg).provider, e, up),
              generate_questions(
                  create_llm_provider(resolve(cfg, e, provider_arg, model_arg).provider,
                                      e, up).provider,
                  lcfg, reply, text, subj, lim),
              requests_sent(
                  create_llm_provider(resolve(cfg, e, provider_arg, model_arg).provider,
                                      e, up).provider,
                  lcfg, reply),
              reply)

\* The provider is created with no argument at all, so the factory reads
\* name, model and connection from the environment; the name reported is
\* the stored one.  Any exception gives the answer of the except clause.
check_llm_health(cfg, e, up, lcfg, reply, r_ollama, r_openai) ==
    LET c == create_llm_provider("None", e, up)
        h == health_check(c.provider, lcfg, reply)
        exc == IF c.exc # "none" THEN c.exc ELSE h.exc
        used == provider_type_of("None", e)
    IN  [endpoint |-> "health", requested |-> "None", requested_model |-> "None",
         status |-> 200,
         body |-> IF exc = "none" /\ h.value = "True" THEN "healthy" ELSE "unhealthy",
         exc |-> exc,
         cause |-> "none",
         reported |-> cfg.llm_provider,
         available |-> IF exc = "none"
                       THEN get_available_providers(e, up, lcfg, r_ollama, r_openai).providers
                       ELSE <<>>,
         provider |-> used, model |-> env_model(used),
         connection |-> connection_of(used, e)]

\* ------------------------------------------------------------------------
\* The endpoints as steps.  main.py declares them with `def`, so each
\* request runs on its own thread and a request may run between two
\* iterations of the loop of update_config.
\* ------------------------------------------------------------------------
InitService ==
    /\ content = <<>>
    /\ subject = "History"
    /\ limit = 1
    /\ impl = "none"
    /\ result = NoResult
    /\ env \in [LLM_PROVIDER : {"", "openai"}, OPENAI_API_KEY : ApiKeys]
    /\ logCfg = DefaultLogCfg
    /\ ollamaUp \in BOOLEAN
    /\ provider = NoProvider
    /\ last = NoCall
    /\ backendReply = NoReply
    /\ config = _get_default_config(env)
    /\ pending = <<>>
    /\ before = config
    /\ http = NoResponse
    /\ PromptIdle
    /\ ConfigIdle
    /\ LegacyIdle

\* update_llm_config, up to the loop of update_config.
UpdateConfigBegin(updates) ==
    /\ pending = <<>>
    /\ pending' = updates
    /\ before' = config
    /\ UNCHANGED <<config, http>>
    /\ UNCHANGED <<ParseVars, ProviderVars, backendReply, PromptVars, ConfigVars, LegacyVars>>

\* One iteration of the loop of update_config.
UpdateConfigWrite ==
    /\ pending # <<>>
    /\ config' = write_item(config, Head(pending))
    /\ pending' = Tail(pending)
    /\ UNCHANGED <<before, http>>
    /\ UNCHANGED <<ParseVars, ProviderVars, backendReply, PromptVars, ConfigVars, LegacyVars>>

GenerateAI(provider_arg, model_arg, reply, text) ==
    /\ reply # "content" => text = <<>>
    /\ http' = generate_ai_questions(config, env, ollamaUp, logCfg, provider_arg,
                                     model_arg, reply, text, subject, limit)
    /\ UNCHANGED <<config, pending, before>>
    /\ UNCHANGED <<ParseVars, ProviderVars, backendReply, PromptVars, ConfigVars, LegacyVars>>

CheckHealth(reply, r_ollama, r_openai) ==
    /\ http' = check_llm_health(config, env, ollamaUp, logCfg, reply, r_ollama, r_openai)
    /\ UNCHANGED <<config, pending, before>>
    /\ UNCHANGED <<ParseVars, ProviderVars, backendReply, PromptVars, ConfigVars, LegacyVars>>

NextService ==
    \/ \E updates \in Updates : UpdateConfigBegin(updates)
    \/ UpdateConfigWrite
    \/ \E provider_arg \in ProviderArgs, model_arg \in ModelArgs,
          reply \in GenReplies, text \in GenTexts :
            GenerateAI(provider_arg, model_arg, reply, text)
    \/ \E reply \in ListReplies, r_ollama \in ListReplies, r_openai \in ListReplies :
            CheckHealth(reply, r_ollama, r_openai)

SpecService == InitService /\ [][NextService]_vars

\* ------------------------------------------------------------------------
\* backend/config_manager.py: update_config and get_provider_config as the
\* caller of ConfigManager sees them
\* ------------------------------------------------------------------------
\* What a caller may hand to update_config: the items of a PUT, a provider
\* name that is no provider, a key the configuration does not have, and the
\* empty API key.
ConfigItems ==
    UpdateItems \cup {<<"llm_provider", "invalid_provider">>,
                      <<"temperature", "0.7">>,
                      <<"openai_api_key", "">>}

ConfigUpdates ==
    {u \in UNION {[1..n -> ConfigItems] : n \in 1..MaxUpdate} :
        \A i, j \in 1..Len(u) : i # j => u[i][1] # u[j][1]}

\* `if key in self._config`: an item with another key is logged and skipped.
known_key(item) == item[1] \in DOMAIN DefaultConfig

\* update_config: every item with a known key is written, whatever its
\* value; then save_config writes the file and the copy is returned.
update_config(cfg, updates) ==
    [exc |-> "none", config |-> write_all(cfg, SelectSeq(updates, known_key))]

\* json.dump of the configuration into llm_config.json.
save_config(cfg) == [exists |-> TRUE, content |-> cfg]

\* get_provider_config raises ValueError when the stored provider is
\* neither "ollama" nor "openai".
provider_config_raises(cfg) == cfg.llm_provider \notin KnownProviders

\* ------------------------------------------------------------------------
\* backend/main.py: get_llm_providers, get_llm_config, update_llm_config
\* ------------------------------------------------------------------------
\* safe_config: the copy of the configuration with the key masked.
safe_config(cfg) ==
    [cfg EXCEPT !.openai_api_key = IF cfg.openai_api_key # "" THEN "***" ELSE ""]

\* {"current": ..., "available": get_available_providers()}: the names of
\* the providers that passed their health check, as strings.
get_llm_providers(cfg, e, up, lcfg, r_ollama, r_openai) ==
    [NoAnswer EXCEPT
        !.endpoint = "providers", !.status = 200,
        !.current = cfg.llm_provider,
        !.available = get_available_providers(e, up, lcfg, r_ollama, r_openai).providers]

\* {"config": safe_config, "current_provider": provider_config}; the
\* ValueError of get_provider_config is answered with 500.
get_llm_config(cfg) ==
    IF provider_config_raises(cfg)
    THEN [NoAnswer EXCEPT !.endpoint = "get_config", !.status = 500, !.exc = "ValueError"]
    ELSE [NoAnswer EXCEPT
            !.endpoint = "get_config", !.status = 200,
            !.config = safe_config(cfg),
            !.current_provider = get_provider_config(cfg)]

valid_keys ==
    {"llm_provider", "ollama_model", "ollama_host", "openai_api_key", "openai_model"}

invalid_keys(body) == {body[i][1] : i \in 1..Len(body)} \ valid_keys

invalid_provider(body) ==
    \E i \in 1..Len(body) :
        body[i][1] = "llm_provider" /\ body[i][2] \notin {"ollama", "openai"}

\* The inner try of update_llm_config: the provider the new configuration
\* names is created with the stored model and connection and asked for its
\* health; every exception is logged and dropped.
test_configuration(cfg, e, up, lcfg, reply) ==
    IF provider_config_raises(cfg) THEN "error"
    ELSE LET api_key == IF cfg.openai_api_key # "" THEN cfg.openai_api_key
                        ELSE e.OPENAI_API_KEY
             c == IF cfg.llm_provider = "ollama" THEN OllamaProvider(up)
                  ELSE OpenAIProvider(api_key)
             h == health_check(c.provider, lcfg, reply)
         IN  IF h.exc # "none" THEN "error" ELSE h.value

\* The two validations answer 400 before anything is written; a request
\* that passes them is written and saved, tested, and answered with the
\* masked copy, whatever the test gave.
update_llm_config(cfg, f, body, e, up, lcfg, reply) ==
    IF invalid_keys(body) # {} \/ invalid_provider(body)
    THEN [config |-> cfg, file |-> f,
          answer |-> [NoAnswer EXCEPT !.endpoint = "put_config", !.request = body,
                                      !.status = 400, !.exc = "HTTPException"]]
    ELSE LET updated_config == update_config(cfg, body).config IN
         [config |-> updated_config, file |-> save_config(updated_config),
          answer |-> [NoAnswer EXCEPT
                        !.endpoint = "put_config", !.request = body, !.status = 200,
                        !.config = safe_config(updated_config),
                        !.healthy = test_configuration(updated_config, e, up, lcfg, reply)]]

\* ------------------------------------------------------------------------
\* The configuration endpoints as steps, one request at a time
\* ------------------------------------------------------------------------
ConfigEnvProviders == {"", "openai", "bogus"}

\* A process that starts without llm_config.json: the stored configuration
\* is the one _get_default_config reads from the environment.
InitConfig ==
    /\ content = <<>>
    /\ subject = "History"
    /\ limit = 1
    /\ impl = "none"
    /\ result = NoResult
    /\ env \in [LLM_PROVIDER : ConfigEnvProviders, OPENAI_API_KEY : ApiKeys]
    /\ logCfg = DefaultLogCfg
    /\ ollamaUp \in BOOLEAN
    /\ provider = NoProvider
    /\ last = NoCall
    /\ backendReply = NoReply
    /\ config = _get_default_config(env)
    /\ pending = <<>>
    /\ before = config
    /\ http = NoResponse
    /\ PromptIdle
    /\ ConfigIdle
    /\ LegacyIdle

GetLlmProviders(r_ollama, r_openai) ==
    /\ answer' = get_llm_providers(config, env, ollamaUp, logCfg, r_ollama, r_openai)
    /\ UNCHANGED <<file, made>>
    /\ UNCHANGED <<ParseVars, ProviderVars, backendReply, ServiceVars, PromptVars>>

GetLlmConfig ==
    /\ answer' = get_llm_config(config)
    /\ UNCHANGED <<file, made>>
    /\ UNCHANGED <<ParseVars, ProviderVars, backendReply, ServiceVars, PromptVars>>

UpdateLlmConfig(body, reply) ==
    /\ LET r == update_llm_config(config, file, body, env, ollamaUp, logCfg, reply) IN
        /\ config' = r.config
        /\ file' = r.file
        /\ answer' = r.answer
    /\ before' = config
    /\ UNCHANGED <<pending, http, made>>
    /\ UNCHANGED <<ParseVars, ProviderVars, backendReply, PromptVars>>

NextConfig ==
    \/ \E r_ollama \in ListReplies, r_openai \in ListReplies :
            GetLlmProviders(r_ollama, r_openai)
    \/ GetLlmConfig
    \/ \E body \in ConfigUpdates, reply \in ListReplies : UpdateLlmConfig(body, reply)

SpecConfig == InitConfig /\ [][NextConfig]_vars

\* ------------------------------------------------------------------------
\* ConfigManager called directly, as its unit tests call it
\* ------------------------------------------------------------------------
UpdateConfig(updates) ==
    /\ LET r == update_config(config, updates) IN
        /\ config' = r.config
        /\ file' = save_config(r.config)
        /\ answer' = [NoAnswer EXCEPT !.endpoint = "update_config", !.request = updates,
                                      !.exc = r.exc,
                                      !.config = IF r.exc = "none" THEN r.config
                                                 ELSE DefaultConfig]
    /\ before' = config
    /\ UNCHANGED <<pending, http, made>>
    /\ UNCHANGED <<ParseVars, ProviderVars, backendReply, PromptVars>>

GetProviderConfig ==
    /\ answer' = IF provider_config_raises(config)
                 THEN [NoAnswer EXCEPT !.endpoint = "get_provider_config",
                                       !.exc = "ValueError"]
                 ELSE [NoAnswer EXCEPT !.endpoint = "get_provider_config",
                                       !.current_provider = get_provider_config(config)]
    /\ UNCHANGED <<file, made>>
    /\ UNCHANGED <<ParseVars, ProviderVars, backendReply, ServiceVars, PromptVars>>

NextManager ==
    \/ \E updates \in ConfigUpdates : UpdateConfig(updates)
    \/ GetProviderConfig

SpecManager == InitConfig /\ [][NextManager]_vars

\* ------------------------------------------------------------------------
\* backend/llm_providers.py: get_llm_provider
\* ------------------------------------------------------------------------
\* The name is os.getenv("LLM_PROVIDER", "ollama").lower().  "ollama" and
\* every unknown name give an OllamaProvider with the defaults of
\* OLLAMA_API_HOST and OLLAMA_MODEL (both unset here); "openai" without
\* OPENAI_API_KEY raises ValueError, and with it gives an OpenAIProvider
\* with the default of OPENAI_MODEL.
get_llm_provider(e) ==
    LET provider_name == env_provider(e) IN
    IF provider_name = "openai"
    THEN IF e.OPENAI_API_KEY = ""
         THEN [exc |-> "ValueError", type |-> "none", host |-> "none", model |-> "none"]
         ELSE [exc |-> "none", type |-> "OpenAI", host |-> "none",
               model |-> "gpt-3.5-turbo"]
    ELSE [exc |-> "none", type |-> "Ollama", host |-> "http://localhost:11434",
          model |-> "llama3.2"]

GetLlmProvider ==
    /\ made' = get_llm_provider(env)
    /\ UNCHANGED <<ParseVars, ProviderVars, backendReply, ServiceVars, PromptVars, ConfigVars>>

\* os.environ is set up anew, as the tests do with patch.dict.
SetEnviron(e) ==
    /\ env' = e
    /\ UNCHANGED <<logCfg, ollamaUp, provider, last>>
    /\ UNCHANGED <<ParseVars, backendReply, ServiceVars, PromptVars, ConfigVars, LegacyVars>>

\* generate_questions of the provider the factory returned, on a reply with
\* the given content (for OpenAI: under the key "questions").
LegacyProviderGenerate(text) ==
    /\ made.type # "none"
    /\ content' = text
    /\ impl' = IF made.type = "Ollama" THEN "legacy" ELSE "legacy_openai_enveloped"
    /\ result' = IF made.type = "Ollama" THEN legacy_generate(text, subject, limit)
                 ELSE legacy_openai_generate(text, TRUE, subject, limit)
    /\ UNCHANGED <<subject, limit>>
    /\ UNCHANGED <<ProviderVars, backendReply, ServiceVars, PromptVars, ConfigVars, LegacyVars>>

NextLegacy ==
    \/ GetLlmProvider
    \/ \E e \in [LLM_PROVIDER : EnvProviders, OPENAI_API_KEY : ApiKeys] : SetEnviron(e)
    \/ \E text \in GenTexts : LegacyProviderGenerate(text)

SpecLegacy == InitGen /\ [][NextLegacy]_vars

\* ------------------------------------------------------------------------
\* The prompt builders: _create_prompt of the package, prompt_template of
\* llm_providers.py
\* ------------------------------------------------------------------------
MaxInstances == 2
MaxBuilt == 2

Digits == <<"0", "1", "2", "3", "4", "5", "6", "7", "8", "9">>

\* str(n) of a natural number, digit by digit.
RECURSIVE str(_)
str(n) == IF n < 10 THEN <<Digits[n + 1]>> ELSE str(n \div 10) \o <<Digits[(n % 10) + 1]>>

\* The default template of OllamaProvider asks for a JSON array, that of
\* OpenAIProvider for an object with the key "questions" and carries an
\* example.
OllamaTemplate ==
    <<"Generate", "{limit}", "questions about", "{subject}", "as a JSON array",
      "category", "{subject_lowercase}">>

OpenAITemplate ==
    <<"Generate", "{limit}", "questions about", "{subject}", "as a JSON object",
      "category", "{subject_lowercase}", "example">>

\* The values PROMPT_TEMPLATE takes here: unset, or a template of the
\* operator's own.
PromptTemplates == {"", "custom"}
CustomTemplate == <<"Write", "{limit}", "items on", "{subject}">>

\* os.getenv("PROMPT_TEMPLATE", default)
getenv_template(value, default) == IF value = "" THEN default ELSE CustomTemplate

\* One placeholder or literal of str.format(limit=, subject=, subject_lowercase=).
format_token(tok, subj, lim) ==
    CASE tok = "{limit}" -> str(lim)
      [] tok = "{subject}" -> <<subj>>
      [] tok = "{subject_lowercase}" -> <<lower(subj)>>
      [] OTHER -> <<tok>>

RECURSIVE format(_, _, _)
format(template, subj, lim) ==
    IF template = <<>> THEN <<>>
    ELSE format_token(Head(template), subj, lim) \o format(Tail(template), subj, lim)

\* _create_prompt of both providers of the package: one f-string of limit,
\* subject and subject.lower().
_create_prompt(subj, lim) ==
    <<"Generate">> \o str(lim) \o <<"questions about", subj, "as a JSON array",
                                     "category", lower(subj)>>

Modules == {"pkg", "legacy"}
ProviderTypes == {"Ollama", "OpenAI"}

\* __init__: the providers of llm_providers.py read PROMPT_TEMPLATE once,
\* those of the package keep no template.
new_instance(module, type, value) ==
    [module |-> module, type |-> type,
     prompt_template |->
        IF module = "pkg" THEN <<>>
        ELSE getenv_template(value, IF type = "Ollama" THEN OllamaTemplate
                                    ELSE OpenAITemplate)]

\* The prompt generate_questions of the instance sends.
prompt_of(inst, subj, lim) ==
    IF inst.module = "pkg" THEN _create_prompt(subj, lim)
    ELSE format(inst.prompt_template, subj, lim)

InitPrompt ==
    /\ content = <<>>
    /\ subject = "History"
    /\ limit = 1
    /\ impl = "none"
    /\ result = NoResult
    /\ env = [LLM_PROVIDER |-> "", OPENAI_API_KEY |-> "sk-test"]
    /\ logCfg = DefaultLogCfg
    /\ ollamaUp = TRUE
    /\ provider = NoProvider
    /\ last = NoCall
    /\ backendReply = NoReply
    /\ ServiceIdle
    /\ PromptIdle
    /\ ConfigIdle
    /\ LegacyIdle

\* os.environ["PROMPT_TEMPLATE"] is set or removed.
SetPromptTemplate(value) ==
    /\ promptEnv' = value
    /\ UNCHANGED <<instances, built>>
    /\ UNCHANGED <<ParseVars, ProviderVars, backendReply, ServiceVars,
                   ConfigVars, LegacyVars>>

NewProvider(module, type) ==
    /\ Len(instances) < MaxInstances
    /\ instances' = Append(instances, new_instance(module, type, promptEnv))
    /\ UNCHANGED <<promptEnv, built>>
    /\ UNCHANGED <<ParseVars, ProviderVars, backendReply, ServiceVars,
                   ConfigVars, LegacyVars>>

\* The first statements of generate_questions, up to the prompt.
BuildPrompt(i, subj, lim) ==
    /\ i \in 1..Len(instances)
    /\ Cardinality(built) < MaxBuilt
    /\ built' = built \cup
            {[subject |-> subj, limit |-> lim, module |-> instances[i].module,
              prompt |-> prompt_of(instances[i], subj, lim)]}
    /\ UNCHANGED <<promptEnv, instances>>
    /\ UNCHANGED <<ParseVars, ProviderVars, backendReply, ServiceVars,
                   ConfigVars, LegacyVars>>

NextPrompt ==
    \/ \E value \in PromptTemplates : SetPromptTemplate(value)
    \/ \E module \in Modules, type \in ProviderTypes : NewProvider(module, type)
    \/ \E i \in 1..MaxInstances, subj \in Subjects, lim \in 1..MaxLimit :
            BuildPrompt(i, subj, lim)

SpecPrompt == InitPrompt /\ [][NextPrompt]_vars

\* ------------------------------------------------------------------------
\* Vocabulary of the properties
\* ------------------------------------------------------------------------
Done == impl # "none"
Succeeded == Done /\ result.exc = "none"

Ids(d) == {d.options[k].id : k \in 1..Len(d.options)}

\* A well-formed question object: the three required keys, four options,
\* ids pairwise distinct and equal to {a,b,c,d}, correct_answer one of them.
WellFormed(d) ==
    /\ QKeys \subseteq d.keys
    /\ Len(d.options) = 4
    /\ Ids(d) = {"a", "b", "c", "d"}
    /\ d.correct_answer \in Ids(d)

DuplicateOptionId(d) ==
    QKeys \subseteq d.keys /\ Len(d.options) = 4 /\ Cardinality(Ids(d)) < 4

AnswerNotAnOption(d) ==
    QKeys \subseteq d.keys /\ d.correct_answer \notin Ids(d)

\* The question q carries the text, options and answer of the object d.
DraftOf(q, d) ==
    /\ q.text = d.text
    /\ q.options = d.options
    /\ q.correct_answer = d.correct_answer

ObjSeqs(n) == [1..n -> ObjNames]

\* The object of the table a returned question was made from (the texts of
\* the table are pairwise distinct).
SourceOf(q) == CHOOSE n \in ObjNames : Obj(n).text = q.text

\* ------------------------------------------------------------------------
\* C1: a reply that is an array of one well-formed and one malformed
\* question (duplicate option id, or correct_answer not among the option
\* ids), parsed with limit >= 2, yields exactly one draft, the well-formed
\* one; the call does not fail.
\* ------------------------------------------------------------------------
C1_OneGoodOneBad(es) ==
    /\ content = ArrayText(es)
    /\ limit >= 2
    /\ \E g, b \in 1..2 :
          /\ g # b
          /\ WellFormed(Obj(es[g]))
          /\ DuplicateOptionId(Obj(es[b])) \/ AnswerNotAnOption(Obj(es[b]))

C1_GoodOf(es) == IF WellFormed(Obj(es[1])) THEN Obj(es[1]) ELSE Obj(es[2])

C1_MalformedItemDropped ==
    Done => \A es \in ObjSeqs(2) :
        C1_OneGoodOneBad(es) =>
            /\ result.exc = "none"
            /\ Len(result.questions) = 1
            /\ DraftOf(result.questions[1], C1_GoodOf(es))

\* ------------------------------------------------------------------------
\* C2: every question returned by generate_questions has exactly 4 options
\* whose ids are pairwise distinct and equal {a,b,c,d}, and a correct_answer
\* that is one of those ids.
\* ------------------------------------------------------------------------
C2_ReturnedQuestionsValid ==
    Succeeded => \A k \in 1..Len(result.questions) :
        LET q == result.questions[k] IN
        /\ Len(q.options) = 4
        /\ Cardinality({q.options[j].id : j \in 1..Len(q.options)}) = 4
        /\ {q.options[j].id : j \in 1..Len(q.options)} = {"a", "b", "c", "d"}
        /\ q.correct_answer \in {q.options[j].id : j \in 1..Len(q.options)}

\* ------------------------------------------------------------------------
\* Reading a reply back as "prose, array of n objects, prose"
\* ------------------------------------------------------------------------
ArrayBody(t, n) == [k \in 1..n |-> t[2 * k]]

IsArrayOfObjects(t, n) ==
    /\ Len(t) = (IF n = 0 THEN 2 ELSE 2 * n + 1)
    /\ \A k \in 1..n : t[2 * k] \in ObjNames
    /\ t = ArrayText(ArrayBody(t, n))

AllWellFormed(es) == \A k \in 1..Len(es) : WellFormed(Obj(es[k]))

\* The elements the validation loop walks over: the first `limit` elements
\* of the parsed value (none when the text could not be parsed).
FirstLimit ==
    LET qd == questions_data(content) IN
    IF qd.exc = "none" THEN Take(as_list(qd.val), limit) ELSE <<>>

Survivors ==
    Cardinality({k \in 1..Len(FirstLimit) :
                    FirstLimit[k].kind = "dict" /\ WellFormed(FirstLimit[k].d)})

\* The failure of the call is the parse failure of the taxonomy: in the
\* package the handler of (JSONDecodeError, ValueError), in llm_providers.py
\* the ValueError (or its subclass JSONDecodeError) that leaves the call.
IsParseError ==
    \/ impl = "pkg" /\ result.exc = "RuntimeError"
                    /\ result.msg = "Failed to parse response"
    \/ impl = "legacy" /\ result.exc \in {"ValueError", "JSONDecodeError"}

Rerun(t) ==
    IF impl = "pkg" THEN pkg_generate(t, subject, limit)
    ELSE legacy_generate(t, subject, limit)

\* ------------------------------------------------------------------------
\* C3 (as stated): a reply that is a JSON array of N well-formed question
\* objects, 0 <= N <= limit, yields exactly N drafts in the order of the
\* array, each with the options and correct_answer of its object.
\* ------------------------------------------------------------------------
C3_Preserved(n) ==
    (IsArrayOfObjects(content, n) /\ AllWellFormed(ArrayBody(content, n)) /\ n <= limit)
    => /\ result.exc = "none"
       /\ Len(result.questions) = n
       /\ \A k \in 1..n : DraftOf(result.questions[k], Obj(content[2 * k]))

C3_AnyNPreserved == Done => \A n \in 0..MaxItems : C3_Preserved(n)

\* C3 (amended): the same for 1 <= N <= limit.
C3_NonEmptyArrayPreserved == Done => \A n \in 1..MaxItems : C3_Preserved(n)

C3_Witness ==
    /\ impl = "pkg"
    /\ limit = 2
    /\ IsArrayOfObjects(content, 2) /\ AllWellFormed(ArrayBody(content, 2))
    /\ content[2] # content[4]
    /\ Len(result.questions) = 2

\* ------------------------------------------------------------------------
\* C4: the call fails with the parse error exactly when no well-formed item
\* survives, and never returns an empty list as a success.
\* ------------------------------------------------------------------------
C4_ParseErrorIffNoSurvivor ==
    Done => /\ (Survivors = 0 => IsParseError)
            /\ ~(result.exc = "none" /\ result.questions = <<>>)
            /\ (Survivors > 0 => result.exc = "none" /\ result.questions # <<>>)

\* ------------------------------------------------------------------------
\* C5 (as stated): an array of well-formed questions with any prose before
\* and after it yields what the bare array yields.
\* ------------------------------------------------------------------------
C5_Wrapped(pre, post) ==
    /\ Len(content) >= Len(pre) + Len(post) + 3
    /\ SubSeq(content, 1, Len(pre)) = pre
    /\ SubSeq(content, Len(content) - Len(post) + 1, Len(content)) = post

C5_Inner(pre, post) == SubSeq(content, Len(pre) + 1, Len(content) - Len(post))

C5_SameAsBare(pre, post) ==
    \A n \in 1..MaxItems :
        (/\ C5_Wrapped(pre, post)
         /\ IsArrayOfObjects(C5_Inner(pre, post), n)
         /\ AllWellFormed(ArrayBody(C5_Inner(pre, post), n)))
        => /\ result = Rerun(C5_Inner(pre, post))
           /\ result.exc = "none"

C5_AnyProseSalvaged ==
    Done => \A pre \in Prose, post \in Prose : C5_SameAsBare(pre, post)

\* C5 (amended): the same when the prose before the array has no "[" and
\* the prose after it has no "]".
NoOpen(p)  == \A k \in 1..Len(p) : p[k] # "["
NoClose(p) == \A k \in 1..Len(p) : p[k] # "]"

C5_BracketFreeProseSalvaged ==
    Done => \A pre \in Prose, post \in Prose :
                (NoOpen(pre) /\ NoClose(post)) => C5_SameAsBare(pre, post)

C5_Witness ==
    /\ impl = "pkg"
    /\ C5_Wrapped(<<"w">>, <<"w">>)
    /\ IsArrayOfObjects(C5_Inner(<<"w">>, <<"w">>), 2)
    /\ AllWellFormed(ArrayBody(C5_Inner(<<"w">>, <<"w">>), 2))
    /\ limit = 2
    /\ Len(result.questions) = 2

\* ------------------------------------------------------------------------
\* C6: a returned result is an order-preserving subsequence of the first
\* `limit` elements of the parsed reply (so no longer than limit, and made
\* of no element beyond position limit); an array of objects with a
\* well-formed one among its first `limit` elements is a success, however
\* many of the others are dropped.
\* ------------------------------------------------------------------------
Increasing(f) == \A j, k \in DOMAIN f : j < k => f[j] < f[k]

C6_SubsequenceOfFirstLimit ==
    Succeeded =>
        /\ Len(result.questions) <= limit
        /\ \E f \in [1..Len(result.questions) -> 1..Len(FirstLimit)] :
              /\ Increasing(f)
              /\ \A k \in 1..Len(result.questions) :
                    /\ FirstLimit[f[k]].kind = "dict"
                    /\ DraftOf(result.questions[k], FirstLimit[f[k]].d)

C6_ShortfallIsSuccess ==
    Done => \A n \in 1..MaxItems :
        (IsArrayOfObjects(content, n) /\ Survivors > 0)
        => result.exc = "none" /\ Len(result.questions) \in 1..limit

C6_ResultWithinLimit == C6_SubsequenceOfFirstLimit /\ C6_ShortfallIsSuccess

C6_Witness ==
    /\ Succeeded
    /\ limit = 2
    /\ content = ArrayText(<<"qGood">>)
    /\ Len(result.questions) = 1

\* ------------------------------------------------------------------------
\* C7: a returned draft has the category of its source item when the item
\* has one, and the lowercased subject when the item has none.
\* ------------------------------------------------------------------------
C7_CategoryFromItemOrSubject ==
    Succeeded => \A k \in 1..Len(result.questions) :
        LET q == result.questions[k]
            d == Obj(SourceOf(q))
        IN  /\ "category" \in d.keys => q.category = d.category
            /\ "category" \notin d.keys => q.category = lower(subject)

\* ------------------------------------------------------------------------
\* C8: create with a provider name outside {ollama, openai} fails with the
\* unknown-provider error (ValueError), constructs no provider and makes no
\* network call.
\* ------------------------------------------------------------------------
C8_UnknownProviderRejected ==
    (last.op = "create" /\ last.name \notin KnownProviders)
    => /\ last.exc = "ValueError"
       /\ last.value = "none"
       /\ last.constructed = 0
       /\ last.net = 0

C8_Witness ==
    /\ last.op = "create"
    /\ last.name = "invalid_provider"
    /\ last.exc = "ValueError"

\* ------------------------------------------------------------------------
\* C9: create for the OpenAI backend without an API key fails with the
\* configuration error, makes no network call and hands no provider to the
\* caller.
\* ------------------------------------------------------------------------
C9_MissingKeyRejected ==
    (last.op = "create" /\ last.name = "openai" /\ env.OPENAI_API_KEY = "")
    => /\ last.exc = "ValueError"
       /\ last.value = "none"
       /\ last.net = 0

\* ------------------------------------------------------------------------
\* C10: health_check never raises, whatever the provider, the logging
\* configuration and the outcome of the request: it returns True or False.
\* ------------------------------------------------------------------------
C10_HealthCheckNeverRaises ==
    last.op = "health" => last.exc = "none" /\ last.value \in {"True", "False"}

\* ------------------------------------------------------------------------
\* Listing the available providers
\* ------------------------------------------------------------------------
\* A step that is a call of get_available_providers.
Listed == last'.op = "list" /\ <<last, backendReply>>' # <<last, backendReply>>

InList(name) == \E k \in 1..Len(last'.value) : last'.value[k] = name

\* What makes each backend pass its own create and health: nothing of the
\* other backend occurs in either.
OllamaServes ==
    ollamaUp /\ _log_prompt(logCfg) = "none" /\ backendReply'.Ollama = "content"

OpenAIServes ==
    /\ env.OPENAI_API_KEY # ""
    /\ _log_prompt(logCfg) = "none"
    /\ backendReply'.OpenAI = "content"

C11_OmitsExactlyTheFailed ==
    /\ last'.exc = "none"
    /\ InList("ollama") <=> OllamaServes
    /\ InList("openai") <=> OpenAIServes

\* ------------------------------------------------------------------------
\* C11 as stated: listing never raises, creates and health-checks every
\* known backend, lists a backend exactly when both of its steps succeed,
\* whatever happens to the other backend.
\* ------------------------------------------------------------------------
C11_EveryKnownBackendAttempted ==
    [][Listed => /\ C11_OmitsExactlyTheFailed
                 /\ last'.constructed = Cardinality(KnownProviders)]_vars

\* ------------------------------------------------------------------------
\* C11 amended: listing never raises and lists a backend exactly when its
\* own create and health succeed, whatever happens to the other backend;
\* Ollama is always attempted, OpenAI only when OPENAI_API_KEY is set, and
\* is otherwise omitted without being constructed.
\* ------------------------------------------------------------------------
C11_ListingNeverRaises ==
    [][Listed => /\ C11_OmitsExactlyTheFailed
                 /\ last'.constructed = 1 + (IF env.OPENAI_API_KEY # "" THEN 1 ELSE 0)]_vars

\* Ollama failed (host down or its request failed) and OpenAI is listed.
C11_Witness ==
    /\ last.op = "list"
    /\ last.value = <<"openai">>
    /\ backendReply.Ollama # "content"

\* ------------------------------------------------------------------------
\* Failures of generate_questions
\* ------------------------------------------------------------------------
Taxonomy == {"ConfigurationError", "ConnectionError", "RemoteAPIError", "ParseError"}

\* The kind an exception class stands for: llm_providers.py declares
\* LLMConnectionError and LLMAPIError; every other class is a builtin.
KindOf(exc) ==
    CASE exc = "LLMConnectionError" -> "ConnectionError"
      [] exc = "LLMAPIError" -> "RemoteAPIError"
      [] OTHER -> "untyped"

Generated == last.op = "generate"

\* ------------------------------------------------------------------------
\* C12: every failure that leaves generate_questions is one of the four
\* kinds of the taxonomy; no untyped or generic exception leaves it.
\* ------------------------------------------------------------------------
C12_EveryFailureClassified ==
    (Generated /\ result.exc # "none") => KindOf(result.exc) \in Taxonomy

C14_NoClientFails ==
    (Generated /\ ~provider.client) => result.exc # "none"

\* ------------------------------------------------------------------------
\* C17: the result or failure of generate_questions is the one the same
\* call has with prompt logging disabled, whatever the logging
\* configuration was at the call.
\* ------------------------------------------------------------------------
C17_LoggingLeavesResultAlone ==
    Generated =>
        result = generate_questions(provider, DefaultLogCfg, backendReply[last.name],
                                    content, subject, limit)

\* ------------------------------------------------------------------------
\* The endpoints and the stored configuration
\* ------------------------------------------------------------------------
\* A step in which an endpoint answered a request.
Answered(endpoint) == http'.endpoint = endpoint /\ http' # http

UsedBy(response) ==
    [provider |-> response.provider, model |-> response.model,
     connection |-> response.connection]

\* ------------------------------------------------------------------------
\* C15: a generate or health call made after an update has changed the
\* stored configuration, and without a provider or model of its own, uses
\* the provider, model and connection the stored configuration then names.
\* ------------------------------------------------------------------------
C15_CallsUseStoredConfiguration ==
    [][(/\ Answered("generate") \/ Answered("health")
        /\ pending = <<>>
        /\ before # config
        /\ http'.requested = "None"
        /\ http'.requested_model = "None")
       => UsedBy(http') = get_provider_config(config)]_vars

\* ------------------------------------------------------------------------
\* C16: a generate call uses the provider, model and connection it would
\* resolve from the stored configuration as it was before the update that
\* runs beside it, or as it is after that update, and from no other.
\* ------------------------------------------------------------------------
C16_NoTornConfiguration ==
    [][Answered("generate") =>
        LET old == IF pending = <<>> THEN config ELSE before
            new == write_all(config, pending)
        IN  UsedBy(http') \in
                {resolve(old, env, http'.requested, http'.requested_model),
                 resolve(new, env, http'.requested, http'.requested_model)}]_vars

\* ------------------------------------------------------------------------
\* C19: generate_ai_questions answers success only with questions: an
\* empty list from the provider, a provider without credential or without
\* reach of its backend, gives HTTP 503 with a detail.
\* ------------------------------------------------------------------------
C19_NoSuccessWithoutQuestions ==
    http.endpoint = "generate" =>
        /\ http.status = 200 => http.body = "questions"
        /\ http.status # 200 => http.status = 503 /\ http.body = "detail"

\* ------------------------------------------------------------------------
\* C20: generate_ai_questions answers a connection failure of the provider
\* with 503, an API error of the backend with 502, and every other failure
\* with 500.
\* ------------------------------------------------------------------------
C20_StatusPerFailure ==
    (http.endpoint = "generate" /\ http.exc # "none") =>
        http.status = CASE http.cause = "connection_error" -> 503
                        [] http.cause = "api_error" -> 502
                        [] OTHER -> 500

\* ------------------------------------------------------------------------
\* C18: two prompts built for the same (subject, limit) by providers of
\* one module are the same string, whatever happened between the two calls
\* and whichever of its provider instances built them.
\* ------------------------------------------------------------------------
C18_SameInputsSamePrompt ==
    \A a, b \in built :
        (a.module = b.module /\ a.subject = b.subject /\ a.limit = b.limit)
        => a.prompt = b.prompt

\* ------------------------------------------------------------------------
\* C21: the answer of GET /api/llm/providers has an entry for every
\* statically known backend (ollama and openai), the unhealthy and the
\* unconfigured ones included.
\* ------------------------------------------------------------------------
C21_EveryKnownBackendReported ==
    answer.endpoint = "providers" =>
        \A name \in KnownProviders :
            \E k \in 1..Len(answer.available) : answer.available[k] = name

\* ------------------------------------------------------------------------
\* C23: a reply that parses to one well-formed question object, not an
\* array, is treated as an array of that one object: exactly that one draft
\* is returned.
\* ------------------------------------------------------------------------
C23_SingleObjectWrapped ==
    (Done /\ impl # "legacy_openai_enveloped") =>
        \A e \in ObjNames :
            (content = <<e>> /\ WellFormed(Obj(e)))
            => /\ result.exc = "none"
               /\ Len(result.questions) = 1
               /\ DraftOf(result.questions[1], Obj(e))

\* The reply, as a whole, is not JSON, and the bracket scan finds no pair
\* or a slice that is not JSON.
Unparseable ==
    /\ ~json_loads(content).ok
    /\ ~BracketPair(content) \/ ~loads_slice(content).ok

\* ------------------------------------------------------------------------
\* C24: when the whole reply is not valid JSON and it has no "[" followed
\* by a later "]", or the text from the first "[" to the last "]" is not
\* valid JSON, the parse fails with the parse error (ValueError, or its
\* subclass json.JSONDecodeError): it returns nothing and fails in no
\* other way.
\* ------------------------------------------------------------------------
C24_UnparseableIsParseError ==
    (Done /\ Unparseable) => result.exc \in {"ValueError", "JSONDecodeError"}

\* A text in brackets that is not JSON: the slice fails to parse.
C24_Witness ==
    /\ impl = "pkg_parse"
    /\ Unparseable
    /\ BracketPair(content)
    /\ result.exc = "JSONDecodeError"

C22_FactoryDefaultsToOllama ==
    [][made' # made =>
        /\ (env.LLM_PROVIDER = "" \/ env_provider(env) \notin KnownProviders)
           => made' = [exc |-> "none", type |-> "Ollama",
                       host |-> "http://localhost:11434", model |-> "mistral"]
        /\ made'.exc = "ValueError"
           <=> (env_provider(env) = "openai" /\ env.OPENAI_API_KEY = "")
        /\ made'.exc \in {"none", "ValueError"}]_vars

\* ------------------------------------------------------------------------
\* C26: ConfigManager.update_config raises ValueError when the update sets
\* llm_provider to a name that is no known provider.
\* ------------------------------------------------------------------------
C26_UpdateRejectsUnknownProvider ==
    (/\ answer.endpoint = "update_config"
     /\ \E i \in 1..Len(answer.request) :
            /\ answer.request[i][1] = "llm_provider"
            /\ answer.request[i][2] \notin KnownProviders)
    => answer.exc = "ValueError"

\* ------------------------------------------------------------------------
\* PUT /api/llm/config and GET /api/llm/config
\* ------------------------------------------------------------------------
\* A step in which PUT /api/llm/config answered a request.
Put ==
    /\ answer'.endpoint = "put_config"
    /\ <<answer, config, file, before>>' # <<answer, config, file, before>>

Refused(body) ==
    \/ \E i \in 1..Len(body) : body[i][1] \notin DOMAIN DefaultConfig
    \/ \E i \in 1..Len(body) :
          body[i][1] = "llm_provider" /\ body[i][2] \notin KnownProviders

Masked(key) == IF key # "" THEN "***" ELSE ""

\* ------------------------------------------------------------------------
\* C27: after every PUT /api/llm/config the stored llm_provider is "ollama"
\* or "openai"; a request with an unknown key or another provider name is
\* answered 400 and leaves the configuration in memory and on file as it
\* was; a valid request is answered 200 and stored in memory and on file,
\* whatever the health check of the new configuration gave.
\* ------------------------------------------------------------------------
C27_StoredProviderStaysKnown ==
    [][Put =>
        /\ config'.llm_provider \in KnownProviders
        /\ Refused(answer'.request)
           => answer'.status = 400 /\ config' = config /\ file' = file
        /\ ~Refused(answer'.request)
           => /\ answer'.status = 200
              /\ config' = write_all(config, answer'.request)
              /\ file' = [exists |-> TRUE, content |-> config']]_vars

\* ------------------------------------------------------------------------
\* C28: no answer of GET or PUT /api/llm/config carries the stored OpenAI
\* API key: where the key would appear there is "***" when it is set and
\* "" when it is not, also when the current provider is openai.
\* ------------------------------------------------------------------------
C28_ApiKeyNeverExposed ==
    (answer.endpoint \in {"get_config", "put_config"} /\ answer.status = 200) =>
        /\ answer.config.openai_api_key = Masked(config.openai_api_key)
        /\ answer.current_provider.provider = "openai"
           => answer.current_provider.connection = Masked(config.openai_api_key)

\* ------------------------------------------------------------------------
\* C29: in the answer of GET /api/llm/health the provider named is the one
\* whose health was checked: "healthy" is the health_check result of a
\* provider of the type named in "provider", for every stored
\* configuration and environment.
\* ------------------------------------------------------------------------
C29_ReportedProviderIsChecked ==
    (http.endpoint = "health" /\ http.exc = "none") => http.reported = http.provider

\* ------------------------------------------------------------------------
\* C30: a provider whose client failed to initialise (Ollama host
\* unreachable at construction, OpenAI key missing) is constructed without
\* raising, and every later call on it sends nothing to the backend:
\* health_check returns False and generate_questions returns, each without
\* a request.
\* ------------------------------------------------------------------------
C30_ClientlessProviderSendsNothing ==
    /\ (last.op = "create" /\ last.name \in KnownProviders) => last.exc = "none"
    /\ (last.op = "health" /\ ~provider.client)
       => last.exc = "none" /\ last.value = "False" /\ last.net = 0
    /\ (last.op = "generate" /\ ~provider.client)
       => result.exc = "none" /\ last.net = 0

====
